---- MODULE Spec2Model ----
(***************************************************************************)
(* Model of the pixel relabelling utility relabel_pixels of the OPERA      *)
(* case-study notebooks (04_Case_Studies/02_Lake_Mead_Mosaicking.ipynb,    *)
(* 04_Bhakra_Nangal_Dam_Gobind_Sagar_Reservoir.ipynb and the DSWx          *)
(* tutorial notebook).  The function is followed statement by statement:   *)
(* deep copy, sort of the category codes, null replacement, new labels,    *)
(* the assert on transparent_val, the dictionary and the rewrite loop.     *)
(* A DataArray is modelled by the sequence of its (flattened) pixels; the  *)
(* uint8 element type is kept (arithmetic modulo Uint8Range).              *)
(***************************************************************************)
EXTENDS Integers, Sequences, FiniteSets

\* ---------------------------------------------------------------- bounds
MaxVals == 3    \* longest list of category codes passed as `values`
MaxPix == 2     \* number of pixels of the DataArray
MaxStart == 2   \* largest small `start`

\* np.uint8: 8-bit unsigned pixels and labels
Uint8Range == 256

\* pixel values the inputs are drawn from (DSWx codes: 0, 1, 2 and 255 = fill)
CodeSet == {0, 1, 2, 255}
NullSet == {2, 255}
TransparentSet == {0, 1}
\* `start`: small values, and one next to the end of the uint8 range, where
\* np.arange(start, start + n_values, dtype=np.uint8) wraps around
StartSet == (0..MaxStart) \cup {Uint8Range - 2}

VARIABLES
    data,             \* argument: the pixels of the caller's DataArray
    values,           \* argument: list of category codes ([] = derive from data)
    null_val,         \* argument
    transparent_val,  \* argument
    replace_null,     \* argument
    start,            \* argument
    new_data,         \* local: the array that is rewritten and returned
    vals,             \* local `values` after np.sort / null removal
    new_values,       \* local: np.arange(start, start + n_values)
    relabel,          \* local: dict, as the sequence of its items in insertion order
    idx,              \* position of the for loop in relabel.items()
    bound,            \* the objects the local names new_data and values refer to
    allocated,        \* the number of objects created so far
    results,          \* what the calls before this one returned
    pc                \* "call", "assert", "loop", "done", "AssertionError"

\* make_bbox / plot_bbox
VARIABLES
    pt,               \* argument of make_bbox: the centre (x, y)
    dx,               \* argument of make_bbox: width
    dy,               \* argument of make_bbox: height
    bbox,             \* the tuple make_bbox returns, argument of plot_bbox
    lon_lat,          \* local of plot_bbox: the centre it recomputes
    bpc               \* "idle", "call", "made", "plotted"

\* search_to_dataframe
VARIABLES
    granules,         \* list(search.items())
    props,            \* the property names found on the granules
    rows,             \* the rows generated, one list entry per DataFrame row
    df,               \* the DataFrame returned (sequence of rows)
    qpc               \* "idle", "call", "rows", "concat", "done", "AssertionError", "ValueError"

\* urls_to_stack
VARIABLES
    granule_dataframe,\* argument: rows (index i, file behind row.href)
    stack,            \* local list of DataArrays
    row_i,            \* position of the for loop in iterrows()
    stacked,          \* the value returned by xr.concat(...).squeeze()
    datasets,         \* the datasets opened so far, each "open" or "closed"
    upc               \* "idle", "loop", "with", "exit", "done", "ValueError",
                      \* "RasterioIOError"

\* the day-by-day stacking cells of the wildfire case study
VARIABLES
    veg_dist_status,  \* rows of the DataFrame: (day of the timestamp, file behind href)
    by_day,           \* Series of (day, list of hrefs)
    crs,              \* data.rio.crs of the file by_day[0][0]
    shape,            \* data.shape of the file by_day[0][0]
    template,         \* coords and dims for the DataArray constructor
    rasters,          \* local list of arrays
    day_i,            \* position of the for loop in by_day.items()
    cube,             \* the DataArray bound to `stack`
    dpc               \* "idle", "resample", "filter", "open", "template", "rasters",
                      \* "loop", "done", or an error

\* the coordinate vectors rebuilt from the bounds of a raster
VARIABLES
    ds,               \* the open dataset: transform (c, a, f), width, height
    bounds,           \* (x_min, y_min, x_max, y_max)
    longitude,        \* np.arange(x_min, x_max, x_res)
    latitude,         \* np.arange(y_max, y_min, -y_res)
    cpc               \* "idle", "open", "bounds", "coords", "done", "ValueError"

\* the selection of the granules with little cloud and the B01_WTR band
VARIABLES
    cell,             \* the notebook whose cell runs: "LakeMead" or "Bhakra"
    found,            \* the rows of df as the search returned them
    frame,            \* df, through the cleaning cell
    c1,               \* the boolean Series of the cloud condition
    c2,               \* the boolean Series of the asset condition
    b01_wtr,          \* the rows of df.loc[c1 & c2] (Bhakra Nangal: the new df)
    fpc               \* "idle", "astype", "convert", "sort", "c1", "c2", "loc", "done"

\* the area damaged, from the stack of the wildfire study
VARIABLES
    dist_stack,       \* stack: one 2-D array of 8-bit pixels per day
    flagged,          \* stack.where(stack==pixel_val, other=0)
    sums,             \* flagged.sum(axis=(1,2))
    damage_area,      \* sums.to_series() * conversion_factor, one float per day
    apc               \* "idle", "where", "sum", "scale", "done"

relabelVars == <<data, values, null_val, transparent_val, replace_null, start,
                 new_data, vals, new_values, relabel, idx, bound, allocated,
                 results, pc>>

bboxVars == <<pt, dx, dy, bbox, lon_lat, bpc>>

searchVars == <<granules, props, rows, df, qpc>>

urlsVars == <<granule_dataframe, stack, row_i, stacked, datasets, upc>>

dailyVars == <<veg_dist_status, by_day, crs, shape, template, rasters, day_i, cube, dpc>>

coordVars == <<ds, bounds, longitude, latitude, cpc>>

filterVars == <<cell, found, frame, c1, c2, b01_wtr, fpc>>

damageVars == <<dist_stack, flagged, sums, damage_area, apc>>

vars == <<relabelVars, bboxVars, searchVars, urlsVars, dailyVars, coordVars, filterVars, damageVars>>

\* a component that is not called in a run stays as it is
RelabelIdle ==
    /\ data = <<>> /\ values = <<>> /\ null_val = 0 /\ transparent_val = 0
    /\ replace_null = FALSE /\ start = 0 /\ new_data = <<>> /\ vals = <<>>
    /\ new_values = <<>> /\ relabel = <<>> /\ idx = 0 /\ bound = <<>>
    /\ allocated = 0 /\ results = <<>> /\ pc = "idle"

BboxIdle ==
    /\ pt = <<>> /\ dx = 0 /\ dy = 0 /\ bbox = <<>> /\ lon_lat = <<>> /\ bpc = "idle"

SearchIdle ==
    /\ granules = <<>> /\ props = <<>> /\ rows = <<>> /\ df = <<>> /\ qpc = "idle"

UrlsIdle ==
    /\ granule_dataframe = <<>> /\ stack = <<>> /\ row_i = 0 /\ stacked = <<>>
    /\ datasets = <<>> /\ upc = "idle"

DailyIdle ==
    /\ veg_dist_status = <<>> /\ by_day = <<>> /\ crs = "" /\ shape = <<>>
    /\ template = <<>> /\ rasters = <<>> /\ day_i = 0 /\ cube = <<>> /\ dpc = "idle"

CoordIdle ==
    /\ ds = <<>> /\ bounds = <<>> /\ longitude = <<>> /\ latitude = <<>>
    /\ cpc = "idle"

FilterIdle ==
    /\ cell = "" /\ found = <<>> /\ frame = <<>> /\ c1 = <<>> /\ c2 = <<>>
    /\ b01_wtr = <<>> /\ fpc = "idle"

DamageIdle ==
    /\ dist_stack = <<>> /\ flagged = <<>> /\ sums = <<>> /\ damage_area = <<>>
    /\ apc = "idle"

\* the state of the components a function or cell does not touch
notRelabel == <<bboxVars, searchVars, urlsVars, dailyVars, coordVars, filterVars, damageVars>>

notBbox == <<relabelVars, searchVars, urlsVars, dailyVars, coordVars, filterVars, damageVars>>

notSearch == <<relabelVars, bboxVars, urlsVars, dailyVars, coordVars, filterVars, damageVars>>

notUrls == <<relabelVars, bboxVars, searchVars, dailyVars, coordVars, filterVars, damageVars>>

notDaily == <<relabelVars, bboxVars, searchVars, urlsVars, coordVars, filterVars, damageVars>>

notCoord == <<relabelVars, bboxVars, searchVars, urlsVars, dailyVars, filterVars, damageVars>>

notFilter == <<relabelVars, bboxVars, searchVars, urlsVars, dailyVars, coordVars, damageVars>>

notDamage == <<relabelVars, bboxVars, searchVars, urlsVars, dailyVars, coordVars, filterVars>>

\* a run of one component: the others are not called
OnlyRelabel == BboxIdle /\ SearchIdle /\ UrlsIdle /\ DailyIdle /\ CoordIdle /\ FilterIdle /\ DamageIdle

OnlyBbox == RelabelIdle /\ SearchIdle /\ UrlsIdle /\ DailyIdle /\ CoordIdle /\ FilterIdle /\ DamageIdle

OnlySearch == RelabelIdle /\ BboxIdle /\ UrlsIdle /\ DailyIdle /\ CoordIdle /\ FilterIdle /\ DamageIdle

OnlyUrls == RelabelIdle /\ BboxIdle /\ SearchIdle /\ DailyIdle /\ CoordIdle /\ FilterIdle /\ DamageIdle

OnlyDaily == RelabelIdle /\ BboxIdle /\ SearchIdle /\ UrlsIdle /\ CoordIdle /\ FilterIdle /\ DamageIdle

OnlyCoord == RelabelIdle /\ BboxIdle /\ SearchIdle /\ UrlsIdle /\ DailyIdle /\ FilterIdle /\ DamageIdle

OnlyFilter == RelabelIdle /\ BboxIdle /\ SearchIdle /\ UrlsIdle /\ DailyIdle /\ CoordIdle /\ DamageIdle

OnlyDamage == RelabelIdle /\ BboxIdle /\ SearchIdle /\ UrlsIdle /\ DailyIdle /\ CoordIdle /\ FilterIdle

args == <<data, values, null_val, transparent_val, replace_null, start>>

\* ------------------------------------------------------- library helpers
Range(s) == {s[i] : i \in DOMAIN s}

SeqsUpTo(S, n) == UNION {[1..k -> S] : k \in 0..n}

\* dtype=np.uint8 conversion of one Python int
ToUint8(v) == v % Uint8Range

\* np.array(values, dtype=np.uint8)
AsUint8Array(s) == [i \in DOMAIN s |-> ToUint8(s[i])]

RECURSIVE InsertSorted(_, _)
InsertSorted(x, s) ==
    IF s = <<>> THEN <<x>>
    ELSE IF x <= Head(s) THEN <<x>> \o s
    ELSE <<Head(s)>> \o InsertSorted(x, Tail(s))

RECURSIVE SortedOf(_)
SortedOf(s) == IF s = <<>> THEN <<>> ELSE InsertSorted(Head(s), SortedOf(Tail(s)))

\* np.sort: ascending, repeated entries kept
NpSort(s) == SortedOf(s)

RECURSIVE SetToSeq(_)
SetToSeq(S) ==
    IF S = {} THEN <<>>
    ELSE LET m == CHOOSE x \in S : \A y \in S : x <= y
         IN <<m>> \o SetToSeq(S \ {m})

\* np.unique(a.flatten()): the distinct entries, ascending
NpUnique(a) == SetToSeq(Range(a))

\* values[np.where(values != null_val)]
\* a selection that keeps every entry
KeepValue(s, v) == s

RECURSIVE DropValue(_, _)
DropValue(s, v) ==
    IF s = <<>> THEN <<>>
    ELSE IF Head(s) = v THEN DropValue(Tail(s), v)
    ELSE <<Head(s)>> \o DropValue(Tail(s), v)

\* a where() that rewrites nothing
WhereNothing(a, old, new) == a

\* a rewrite that also hits every pixel above `old`
WhereAtLeast(a, old, new) == [i \in DOMAIN a |-> IF a[i] < old THEN a[i] ELSE new]

\* a.where(a != old, other=new): pixels equal to old become new, others stay
Where(a, old, new) == [i \in DOMAIN a |-> IF a[i] # old THEN a[i] ELSE new]

\* np.arange(start=s, stop=s+n, dtype=np.uint8)
Arange(s, n) == [i \in 1..n |-> ToUint8(s + i - 1)]

\* ------------------------------------------------------------ dictionary
Keys(d) == {d[i][1] : i \in DOMAIN d}

Lookup(d, k) == (CHOOSE i \in DOMAIN d : d[i][1] = k)

Get(d, k) == d[Lookup(d, k)][2]

Image(d) == {d[i][2] : i \in DOMAIN d}

\* d[k] = v : a new key is appended, an existing key keeps its position
SetItem(d, k, v) ==
    IF k \in Keys(d)
    THEN [d EXCEPT ![Lookup(d, k)] = <<k, v>>]
    ELSE Append(d, <<k, v>>)

RECURSIVE ZipInto(_, _, _, _)
ZipInto(d, ks, vs, i) ==
    IF i > Len(ks) \/ i > Len(vs) THEN d
    ELSE ZipInto(SetItem(d, ks[i], vs[i]), ks, vs, i + 1)

\* dict(zip(ks, vs))
DictZip(ks, vs) == ZipInto(<<>>, ks, vs, 1)

\* --------------------------------------------------------- relabel_pixels
\* `values` after the if/else on the argument
SortedValues(vs, d) ==
    IF vs # <<>> THEN NpSort(AsUint8Array(vs)) ELSE NpSort(NpUnique(d))

\* an assert that tests the category codes instead of the new labels
AssertOnCodes(tv, nv, vs) == tv \in Range(vs)

\* an assert that lets everything through
AssertNothing(tv, nv, vs) == TRUE

\* assert transparent_val in new_values
AssertTransparent(tv, nv, vs) == tv \in Range(nv)

\* Python names refer to objects.  The caller's array is the object DataObj
\* and the caller's list of codes the object ValuesObj; every other object
\* is created during a call and numbered as it is created.
DataObj == 1

ValuesObj == 2

\* the parameters data and values are bound to the caller's objects
Parameters == [new_data |-> DataObj, values |-> ValuesObj]

\* list.sort(): the sorted entries are written into the list itself
SortInPlace(obj, fresh) == obj

\* data.copy(deep=True): a new object with a copy of the pixels
DeepCopy(obj, fresh) == fresh

\* np.sort(np.array(values, dtype=np.uint8)) and np.sort(np.unique(...)):
\* np.array and np.unique build a new array and np.sort returns a sorted copy
SortedCopy(obj, fresh) == fresh

\* values[np.where(values!=null_val)]: indexing with an index array copies
Selected(obj, fresh) == fresh

\* DataArray.where(cond, other=...): a new DataArray, the operand is left alone
WhereResult(obj, fresh) == fresh

\* what a name of the caller refers to, once `content` was stored in `obj`:
\* the new content if obj is the caller's object, what it was otherwise
CallerSees(callerObj, callerContent, obj, content) ==
    IF obj = callerObj THEN content ELSE callerContent

scalars == <<null_val, transparent_val, replace_null, start>>

locals == <<new_data, vals, new_values, relabel, idx, bound>>

Init ==
    /\ data \in [1..MaxPix -> CodeSet]
    /\ values \in SeqsUpTo(CodeSet, MaxVals)
    /\ null_val \in NullSet
    /\ transparent_val \in TransparentSet
    /\ replace_null \in BOOLEAN
    /\ start \in StartSet
    /\ new_data = <<>>
    /\ vals = <<>>
    /\ new_values = <<>>
    /\ relabel = <<>>
    /\ idx = 0
    /\ bound = Parameters
    /\ allocated = ValuesObj
    /\ results = <<>>
    /\ pc = "call"
    /\ OnlyRelabel

\* new_data = data.copy(deep=True) ... new_values = np.arange(...)
Prepare ==
    /\ pc = "call"
    /\ LET \* new_data = data.copy(deep=True)
           copyObj   == DeepCopy(DataObj, allocated + 1)
           \* values = np.sort(np.array(values, ...)), or np.sort(np.unique(...))
           sorted    == SortedValues(values, data)
           sortObj   == SortedCopy(ValuesObj, allocated + 2)
           values1   == CallerSees(ValuesObj, values, sortObj, sorted)
           \* new_data = new_data.where(new_data!=null_val, other=transparent_val)
           replaced  == Where(data, null_val, transparent_val)
           whereObj  == WhereResult(copyObj, allocated + 3)
           data1     == CallerSees(DataObj, data, whereObj, replaced)
           \* values = values[np.where(values!=null_val)]
           dropped   == DropValue(sorted, null_val)
           dropObj   == Selected(sortObj, allocated + 4)
           values2   == CallerSees(ValuesObj, values1, dropObj, dropped)
       IN IF replace_null
          THEN /\ new_data' = replaced
               /\ vals' = dropped
               /\ bound' = [new_data |-> whereObj, values |-> dropObj]
               /\ allocated' = allocated + 4
               /\ data' = data1
               /\ values' = values2
          ELSE /\ new_data' = data
               /\ vals' = sorted
               /\ bound' = [new_data |-> copyObj, values |-> sortObj]
               /\ allocated' = allocated + 2
               /\ data' = data
               /\ values' = values1
    /\ new_values' = Arange(start, Len(vals'))
    /\ pc' = "assert"
    /\ UNCHANGED <<scalars, relabel, idx, results>>
    /\ UNCHANGED notRelabel

\* the assert holds: relabel = dict(zip(values, new_values))
AssertPass ==
    /\ pc = "assert"
    /\ AssertTransparent(transparent_val, new_values, vals)
    /\ relabel' = DictZip(vals, new_values)
    /\ idx' = 1
    /\ pc' = "loop"
    /\ UNCHANGED <<args, new_data, vals, new_values, bound, allocated, results>>
    /\ UNCHANGED notRelabel

\* the assert fails: AssertionError leaves the function
AssertFail ==
    /\ pc = "assert"
    /\ ~AssertTransparent(transparent_val, new_values, vals)
    /\ pc' = "AssertionError"
    /\ UNCHANGED <<args, locals, allocated, results>>
    /\ UNCHANGED notRelabel

\* if new==old: continue
LoopContinue ==
    /\ pc = "loop"
    /\ idx <= Len(relabel)
    /\ relabel[idx][2] = relabel[idx][1]
    /\ idx' = idx + 1
    /\ UNCHANGED <<args, new_data, vals, new_values, relabel, bound, allocated,
                   results, pc>>
    /\ UNCHANGED notRelabel

\* new_data = new_data.where(new_data!=old, other=new)
LoopWhere ==
    /\ pc = "loop"
    /\ idx <= Len(relabel)
    /\ relabel[idx][2] # relabel[idx][1]
    /\ new_data' = Where(new_data, relabel[idx][1], relabel[idx][2])
    /\ bound' = [bound EXCEPT !.new_data = WhereResult(bound.new_data, allocated + 1)]
    /\ allocated' = allocated + 1
    /\ data' = CallerSees(DataObj, data, bound'.new_data, new_data')
    /\ idx' = idx + 1
    /\ UNCHANGED <<values, scalars, vals, new_values, relabel, results, pc>>
    /\ UNCHANGED notRelabel

\* return new_data, relabel
Return ==
    /\ pc = "loop"
    /\ idx > Len(relabel)
    /\ pc' = "done"
    /\ UNCHANGED <<args, locals, allocated, results>>
    /\ UNCHANGED notRelabel

\* the caller calls relabel_pixels once more with the same arguments: the
\* names it passes refer to the same objects as before
CallAgain ==
    /\ pc = "done"
    /\ results = <<>>
    /\ results' = <<[new_data |-> new_data, relabel |-> relabel]>>
    /\ new_data' = <<>>
    /\ vals' = <<>>
    /\ new_values' = <<>>
    /\ relabel' = <<>>
    /\ idx' = 0
    /\ bound' = Parameters
    /\ pc' = "call"
    /\ UNCHANGED <<args, allocated>>
    /\ UNCHANGED notRelabel

Next ==
    \/ Prepare \/ AssertPass \/ AssertFail \/ LoopContinue \/ LoopWhere
    \/ Return \/ CallAgain

Spec == Init /\ [][Next]_vars

\* ------------------------------------------------- vocabulary of the claims
\* the category codes of the call: the supplied list, or the observed pixel
\* values when the list is empty
Codes == IF values # <<>> THEN Range(AsUint8Array(values)) ELSE Range(data)

\* the codes that remain after missing-collapse
Remaining == IF replace_null THEN Codes \ {null_val} ELSE Codes

Returned == pc = "done"

PastAssert == pc \in {"loop", "done"}

\* the new value range [start, start + number of entries of `values` left)
NewRange == {ToUint8(start + k) : k \in 0..(Len(vals) - 1)}

\* the inverse of the returned map applied to one pixel
InverseGet(d, p) ==
    IF p \in Image(d) THEN d[CHOOSE i \in DOMAIN d : d[i][2] = p][1] ELSE p

Injective(d) == \A i, j \in DOMAIN d : d[i][2] = d[j][2] => i = j

\* ------------------------------------------------------------------ C1
\* C1: when every pixel value is among the category codes, each pixel whose
\* original value is v ends as exactly relabel[v] (the map acts as one
\* simultaneous substitution), for every start.
C1_SimultaneousSubstitution ==
    (Returned /\ Range(data) \subseteq Codes) =>
        \A i \in DOMAIN data :
            data[i] \in Keys(relabel) => new_data[i] = Get(relabel, data[i])

\* ------------------------------------------------------------------ C2
\* C2: for every list of codes, in any order and with or without repeats,
\* the returned map is a bijection from the distinct codes that remain after
\* missing-collapse onto [start, start + number of remaining codes).
C2_DenseBijection ==
    PastAssert =>
        /\ Keys(relabel) = Remaining
        /\ Injective(relabel)
        /\ Image(relabel) = {start + k : k \in 0..(Cardinality(Remaining) - 1)}

\* ------------------------------------------------------------------ C3
\* C3: with replace_null true every pixel that was null_val ends with the
\* value the map assigns to transparent_val and null_val is no key of the
\* map; with replace_null false null_val keeps a map entry of its own.
C3_NullCollapse ==
    Returned =>
        /\ replace_null =>
              /\ null_val \notin Keys(relabel)
              /\ \A i \in DOMAIN data :
                    (data[i] = null_val /\ transparent_val \in Keys(relabel))
                        => new_data[i] = Get(relabel, transparent_val)
        /\ (~replace_null /\ null_val \in Codes) => null_val \in Keys(relabel)

\* ------------------------------------------------------------------ C4
\* C4: with replace_null false and every pixel value among the category
\* codes, the inverse of the returned map applied to the relabelled array
\* gives back the original array, for every start.
C4_RoundTrip ==
    (Returned /\ ~replace_null /\ Range(data) \subseteq Codes) =>
        \A i \in DOMAIN data : InverseGet(relabel, new_data[i]) = data[i]

\* ------------------------------------------------------------------ C5
\* C5: the map is strictly order preserving: for remaining codes a < b the
\* new value of a is below the new value of b, whatever the order in which
\* the codes were supplied.
C5_OrderPreserving ==
    PastAssert =>
        \A a, b \in Keys(relabel) :
            a < b => Get(relabel, a) < Get(relabel, b)

\* ------------------------------------------------------------------ C6
\* C6 (as claimed): the call fails exactly when transparent_val is not one
\* of the category codes.
C6_FailsIffNotACode ==
    /\ pc = "AssertionError" => transparent_val \notin Codes
    /\ PastAssert => transparent_val \in Codes

\* C6 (amended): the call fails, with AssertionError, exactly when
\* transparent_val is not one of the new labels np.arange(start, start+n);
\* whether transparent_val is a category code plays no part.
C6_FailsIffNotANewValue ==
    /\ pc = "AssertionError" => transparent_val \notin Range(new_values)
    /\ PastAssert => transparent_val \in Range(new_values)

\* the call failed although transparent_val is one of the category codes
C6_Witness ==
    /\ pc = "AssertionError"
    /\ transparent_val \in Codes
    /\ vals # <<>>

\* ------------------------------------------------------------------ C7
\* C7 (as claimed): whenever the call returns, the returned map assigns a
\* value to transparent_val and that value is in the map's image.
C7_MappedTransparentInImage ==
    Returned =>
        /\ transparent_val \in Keys(relabel)
        /\ Get(relabel, transparent_val) \in Image(relabel)

\* C7 (amended): whenever the call returns, transparent_val itself is a
\* member of the new value range [start, start + n), n the number of
\* entries of `values` left after missing-collapse.
C7_TransparentInNewRange == Returned => transparent_val \in NewRange

\* returned with a start above 0 and a transparent_val that is no key
C7_Witness ==
    /\ Returned
    /\ start > 0
    /\ transparent_val \notin Keys(relabel)

\* ------------------------------------------------------------------ C8
\* C8 (as claimed): the call never returns when some pixel's original value
\* is not among the category codes.
C8_StrictCoverage == Returned => Range(data) \subseteq Codes

\* C8 (amended): there is no strict mode; the call returns, and a pixel
\* whose original value is not among the category codes (and is not a
\* null_val replaced under replace_null) comes back unchanged.
C8_UnlistedPassThrough ==
    Returned =>
        \A i \in DOMAIN data :
            (data[i] \notin Codes /\ ~(replace_null /\ data[i] = null_val))
                => new_data[i] = data[i]

\* returned with an unlisted pixel value while other pixels were rewritten
C8_Witness ==
    /\ Returned
    /\ \E i \in DOMAIN data :
          data[i] \notin Codes /\ ~(replace_null /\ data[i] = null_val)
    /\ new_data # data

\* ------------------------------------------------------------------ C20
\* C20: relabel_pixels is pure: no step of a call changes the caller's input
\* array or the caller's list of codes, and a second call with the same
\* arguments returns the same array and the same map as the first.
C20_Pure ==
    [][/\ data' = data
       /\ values' = values
       /\ (pc' = "done" /\ results' # <<>>) =>
             results'[1] = [new_data |-> new_data', relabel |-> relabel']]_vars

\* a second call returned, with an array that differs from its input and
\* from a list of codes that was not sorted
C20_Witness ==
    /\ Returned
    /\ results # <<>>
    /\ new_data # data
    /\ vals # values
    /\ values # <<>>

\* ============================================================ make_bbox
\* Python floats are IEEE 754 binary64 numbers: FloatBits significant bits,
\* every sum rounded to the nearest representable number, ties to the even
\* significand.  A number of the model is a pair <<hi, lo>> of integers that
\* stands for hi * 2^HiExp + lo (with lo far below 2^HiExp), so that numbers
\* next to 2^53, 2^54, ... and small whole numbers are both written exactly.
FloatBits == 53

HiExp == 50

\* the hi parts of the coordinates: 0 and +-2^54
MaxHi == 16

MaxLo == 8

MaxDelta == 8

RECURSIVE Pow2(_)

Pow2(n) == IF n = 0 THEN 1 ELSE 2 * Pow2(n - 1)

Plus(a, b) == <<a[1] + b[1], a[2] + b[2]>>

Neg(a) == <<-a[1], -a[2]>>

Less(a, b) == a[1] < b[1] \/ (a[1] = b[1] /\ a[2] < b[2])

Leq(a, b) == a = b \/ Less(a, b)

Abs(a) == IF Less(a, <<0, 0>>) THEN Neg(a) ELSE a

RECURSIVE QuantumFrom(_, _)

\* the spacing 2^j of the floats around a >= 0: a < 2^(FloatBits + j);
\* whole numbers below 2^FloatBits are all floats
QuantumFrom(a, j) ==
    IF Less(a, <<Pow2(FloatBits - HiExp + j), 0>>) THEN Pow2(j)
    ELSE QuantumFrom(a, j + 1)

Quantum(a) == QuantumFrom(a, 0)

\* round to nearest, ties to even
Fl(v) ==
    LET a    == Abs(v)
        q    == Quantum(a)
        r    == a[2] % q
        down == <<a[1], a[2] - r>>
        odd  == ((a[2] - r) \div q) % 2 = 1
        up   == \/ 2 * r > q
                \/ 2 * r = q /\ odd
        n    == IF up THEN <<down[1], down[2] + q>> ELSE down
    IN IF Less(v, <<0, 0>>) THEN Neg(n) ELSE n

Representable(v) == Fl(v) = v

\* dx/2, 0.5*s: halving a float is exact; the halved numbers of the model
\* have even parts
Half(v) == <<v[1] \div 2, v[2] \div 2>>

\* sgn*delta
Times(sgn, v) == IF sgn = -1 THEN Neg(v) ELSE v

\* sum(...) of two floats, starting from the integer 0
Sum2(a, b) == Fl(Plus(Fl(Plus(<<0, 0>>, a)), b))

\* the generator with the two loops exchanged:
\* (coord + sgn*delta for coord, delta in zip(...) for sgn in (-1,+1))
MakeBboxCoordFirst(p, w, h) ==
    LET delta == <<Half(w), Half(h)>>
    IN [k \in 1..4 |->
          LET sgn == IF k % 2 = 1 THEN -1 ELSE 1
              j   == ((k - 1) \div 2) + 1
          IN Fl(Plus(p[j], Times(sgn, delta[j])))]

\* tuple(coord + sgn*delta for sgn in (-1,+1)
\*                         for coord, delta in zip(pt, (dx/2, dy/2)))
make_bbox(p, w, h) ==
    LET delta == <<Half(w), Half(h)>>
    IN [k \in 1..4 |->
          LET sgn == IF k <= 2 THEN -1 ELSE 1
              j   == ((k - 1) % 2) + 1
          IN Fl(Plus(p[j], Times(sgn, delta[j])))]

\* lon_lat = (0.5*sum(bbox[::2]), 0.5*sum(bbox[1::2]))
CentreOf(b) == <<Half(Sum2(b[1], b[3])), Half(Sum2(b[2], b[4]))>>

CoordSet ==
    {v \in {-MaxHi, 0, MaxHi} \X (-MaxLo..MaxLo) : v[2] % 2 = 0 /\ Representable(v)}

DeltaSet == {<<0, d>> : d \in {e \in 0..MaxDelta : e % 2 = 0}}

BboxInit ==
    /\ pt \in CoordSet \X CoordSet
    /\ dx \in DeltaSet
    /\ dy \in DeltaSet
    /\ bbox = <<>>
    /\ lon_lat = <<>>
    /\ bpc = "call"
    /\ OnlyBbox

\* bbox = make_bbox(pt, dx, dy)
MakeBboxCall ==
    /\ bpc = "call"
    /\ bbox' = make_bbox(pt, dx, dy)
    /\ bpc' = "made"
    /\ UNCHANGED <<pt, dx, dy, lon_lat>>
    /\ UNCHANGED notBbox

\* plot_bbox(bbox): the centre of the map is computed from the corners
PlotBboxCall ==
    /\ bpc = "made"
    /\ lon_lat' = CentreOf(bbox)
    /\ bpc' = "plotted"
    /\ UNCHANGED <<pt, dx, dy, bbox>>
    /\ UNCHANGED notBbox

BboxNext == MakeBboxCall \/ PlotBboxCall

SpecBbox == BboxInit /\ [][BboxNext]_vars

\* ------------------------------------------------- vocabulary of the claims
\* the four numbers of the claim, computed without rounding
ExactBox ==
    <<Plus(pt[1], Neg(Half(dx))), Plus(pt[2], Neg(Half(dy))),
      Plus(pt[1], Half(dx)), Plus(pt[2], Half(dy))>>

Positive(v) == Less(<<0, 0>>, v)

\* the distance of two numbers
Dist(a, b) == Abs(Plus(a, Neg(b)))

\* f is a float nearest to the real number v
NearestFloat(f, v) ==
    /\ Representable(f)
    /\ \A e \in -(2 * MaxDelta)..(2 * MaxDelta) :
          LET g == Plus(v, <<0, e>>)
          IN Representable(g) => Leq(Dist(f, v), Dist(g, v))

\* ------------------------------------------------------------------ C19
\* C19 (as claimed): make_bbox returns exactly (x - dx/2, y - dy/2,
\* x + dx/2, y + dy/2) in that order; for dx > 0 and dy > 0 the box has
\* x_max > x_min and y_max > y_min; the centre plot_bbox recomputes from the
\* box equals pt.
C19_ExactBoxAndCentre ==
    /\ bpc \in {"made", "plotted"} =>
          /\ bbox = ExactBox
          /\ (Positive(dx) /\ Positive(dy)) =>
                (Less(bbox[1], bbox[3]) /\ Less(bbox[2], bbox[4]))
    /\ bpc = "plotted" => lon_lat = pt

\* C19 (amended): make_bbox returns the 4-tuple of x - dx/2, y - dy/2,
\* x + dx/2, y + dy/2 in that order, each rounded to a nearest float; for
\* dx > 0 and dy > 0 the box satisfies x_min <= x <= x_max and
\* y_min <= y <= y_max; when no entry needed rounding, x_max > x_min and
\* y_max > y_min hold and the centre plot_bbox recomputes equals pt.
C19_RoundedBox ==
    /\ bpc \in {"made", "plotted"} =>
          /\ Len(bbox) = 4
          /\ \A k \in 1..4 : NearestFloat(bbox[k], ExactBox[k])
          /\ (Positive(dx) /\ Positive(dy)) =>
                /\ Leq(bbox[1], pt[1]) /\ Leq(pt[1], bbox[3])
                /\ Leq(bbox[2], pt[2]) /\ Leq(pt[2], bbox[4])
          /\ (Positive(dx) /\ Positive(dy) /\ bbox = ExactBox) =>
                (Less(bbox[1], bbox[3]) /\ Less(bbox[2], bbox[4]))
    /\ (bpc = "plotted" /\ bbox = ExactBox) => lon_lat = pt

\* a box of positive width and height, with a corner that was rounded, whose
\* recomputed centre is not pt
C19_Witness ==
    /\ bpc = "plotted"
    /\ Positive(dx) /\ Positive(dy)
    /\ bbox # ExactBox
    /\ lon_lat # pt

\* ================================================== search_to_dataframe
MaxGranules == 2

\* granule ids, character by character; the fields are separated by "_"
IdSet ==
    { <<"O", "_", "L", "_", "D", "_", "T", "_", "a">>,
      <<"O", "_", "L", "_", "D", "_", "U", "_", "b">>,
      <<"O", "_", "L", "_", "D">> }

PropNames == {"datetime", "eo:cloud_cover"}

AssetNames == {"B01_WTR", "B02_BWTR"}

HrefSet == {"u1", "u2"}

\* g.properties of the granules: a dict on some of the property names
PropertiesSet == {[n \in S |-> "v"] : S \in {{}, PropNames}}

\* g.assets of the granules: a dict from asset name to an asset with an href.
\* A dict keeps the order in which its keys were inserted: it is the sequence
\* of its items, no name twice
AssetsSet ==
    {d \in SeqsUpTo([name : AssetNames, href : HrefSet], Cardinality(AssetNames)) :
        \A i, j \in DOMAIN d : d[i].name = d[j].name => i = j}

GranuleSet == [id : IdSet, properties : PropertiesSet, assets : AssetsSet]

\* list(...) of a set: each element once; the order of a set of strings
\* depends on the hash seed of the interpreter, so every order is possible
ListsOf(S) ==
    {l \in [1..Cardinality(S) -> S] : \A i, j \in DOMAIN l : l[i] = l[j] => i = j}

\* the keys of a dict, in insertion order
KeyList(d) == [n \in DOMAIN d |-> d[n].name]

\* d[k].href
HrefOf(d, k) == d[CHOOSE n \in DOMAIN d : d[n].name = k].href

RECURSIVE Split(_, _)

\* str.split(sep): the fields between the separators
Split(str, sep) ==
    IF \A i \in DOMAIN str : str[i] # sep THEN <<str>>
    ELSE LET i == CHOOSE j \in DOMAIN str :
                      str[j] = sep /\ \A k \in 1..(j - 1) : str[k] # sep
         IN <<SubSeq(str, 1, i - 1)>> \o Split(SubSeq(str, i + 1, Len(str)), sep)

\* granule.id.split('_')[2]
ThirdField(g) == Split(g.id, "_")[3]

\* granule.id.split('_')[3]
TileId(g) == Split(g.id, "_")[4]

\* granule.id.split('_')[3] raises IndexError
NoTileId(g) == Len(Split(g.id, "_")) < 4

\* g.properties.get(k, None)
PropertyGet(g, k) == IF k \in DOMAIN g.properties THEN g.properties[k] ELSE "None"

\* [g.properties.get(k, None) for k in props] + [a, g.assets[a].href, t]
RowList(g, t, a, ps) ==
    [i \in DOMAIN ps |-> PropertyGet(g, ps[i])] \o <<a, HrefOf(g.assets, a), t>>

RECURSIVE RowsOfGranule(_, _, _, _)

\* ... for a in g.assets
RowsOfGranule(g, t, as, ps) ==
    IF as = <<>> THEN <<>>
    ELSE <<RowList(g, t, Head(as), ps)>> \o RowsOfGranule(g, t, Tail(as), ps)

RECURSIVE RowsOf(_, _)

\* ... for g, t in zip(granules, tile_ids)
RowsOf(gs, ps) ==
    IF gs = <<>> THEN <<>>
    ELSE RowsOfGranule(Head(gs), TileId(Head(gs)), KeyList(Head(gs).assets), ps)
             \o RowsOf(Tail(gs), ps)

\* pd.DataFrame(x, index=props+['asset','href','tile_id']).T: one row, the
\* entries of x under the column names at the same positions
OneRowFrame(x, index) ==
    [c \in Range(index) |-> x[CHOOSE i \in DOMAIN index : index[i] = c]]

\* pd.concat(..., axis=0, ignore_index=True) of one-row frames
ConcatRows(xs, index) == [k \in DOMAIN xs |-> OneRowFrame(xs[k], index)]

\* an assert that lets every list through
AssertAnything(gs) == TRUE

\* assert granules, "Error: empty list of search results"
AssertGranules(gs) == gs # <<>>

SearchInit ==
    /\ granules \in SeqsUpTo(GranuleSet, MaxGranules)
    /\ props = <<>>
    /\ rows = <<>>
    /\ df = <<>>
    /\ qpc = "call"
    /\ OnlySearch

\* the first assert fails on an empty list of search results
SearchAssertEmpty ==
    /\ qpc = "call"
    /\ ~AssertGranules(granules)
    /\ qpc' = "AssertionError"
    /\ UNCHANGED <<granules, props, rows, df>>
    /\ UNCHANGED notSearch

\* props = list({prop for g in granules for prop in g.properties.keys()});
\* tile_ids and rows are lazy, nothing of them is computed yet
SearchProps ==
    /\ qpc = "call"
    /\ AssertGranules(granules)
    /\ props' \in ListsOf(UNION {DOMAIN granules[i].properties : i \in DOMAIN granules})
    /\ qpc' = "concat"
    /\ UNCHANGED <<granules, rows, df>>
    /\ UNCHANGED notSearch

\* df = pd.concat(map(..., rows), axis=0, ignore_index=True): the rows are
\* generated here; an id with fewer than four fields raises IndexError,
\* and pd.concat of no frame at all raises ValueError
SearchConcat ==
    /\ qpc = "concat"
    /\ IF \E i \in DOMAIN granules : NoTileId(granules[i])
       THEN /\ qpc' = "IndexError"
            /\ UNCHANGED <<rows, df>>
       ELSE /\ rows' = RowsOf(granules, props)
            /\ IF rows' = <<>>
               THEN /\ qpc' = "ValueError"
                    /\ UNCHANGED df
               ELSE /\ df' = ConcatRows(rows', props \o <<"asset", "href", "tile_id">>)
                    /\ qpc' = "assert"
    /\ UNCHANGED <<granules, props>>
    /\ UNCHANGED notSearch

\* assert len(df), "Empty DataFrame"; return df
SearchReturn ==
    /\ qpc = "assert"
    /\ qpc' = (IF Len(df) = 0 THEN "AssertionError" ELSE "done")
    /\ UNCHANGED <<granules, props, rows, df>>
    /\ UNCHANGED notSearch

SearchNext == SearchAssertEmpty \/ SearchProps \/ SearchConcat \/ SearchReturn

SpecSearch == SearchInit /\ [][SearchNext]_vars

\* ------------------------------------------------- vocabulary of the claims
\* the n-th field of an id: the characters with n - 1 separators before them
NthField(str, n) ==
    LET at == {i \in DOMAIN str :
                 /\ str[i] # "_"
                 /\ Cardinality({j \in 1..i : str[j] = "_"}) = n - 1}
    IN [k \in 1..Cardinality(at) |->
           str[CHOOSE i \in at : Cardinality({j \in at : j < i}) = k - 1]]

NumAssets(g) == Len(g.assets)

RECURSIVE AssetCount(_, _)

\* the number of assets of the first n granules
AssetCount(gs, n) == IF n = 0 THEN 0 ELSE AssetCount(gs, n - 1) + NumAssets(gs[n])

\* ------------------------------------------------------------------ C17
\* C17: when search_to_dataframe returns, the DataFrame has one row per
\* (granule, asset) pair, so its length is the sum of the granules' asset
\* counts; the row of a pair carries the asset name, that asset's href, the
\* fourth "_"-separated field of that granule's id as tile_id, and for each
\* property column the granule's value or None when the granule lacks it.
C17_OneRowPerAsset ==
    qpc = "done" =>
        /\ Len(df) = AssetCount(granules, Len(granules))
        /\ \A i \in DOMAIN granules : \A a \in DOMAIN granules[i].assets :
              \E k \in (AssetCount(granules, i - 1) + 1)..AssetCount(granules, i) :
                  /\ df[k]["asset"] = granules[i].assets[a].name
                  /\ df[k]["href"] = granules[i].assets[a].href
                  /\ df[k]["tile_id"] = NthField(granules[i].id, 4)
                  /\ \A c \in Range(props) :
                        df[k][c] = (IF c \in DOMAIN granules[i].properties
                                    THEN granules[i].properties[c] ELSE "None")

\* returned for two granules of different tiles, one with two assets, one
\* lacking a property the other has
C17_Witness ==
    /\ qpc = "done"
    /\ Len(granules) = 2
    /\ NthField(granules[1].id, 4) # NthField(granules[2].id, 4)
    /\ NumAssets(granules[1]) = 2
    /\ \E k \in DOMAIN df : \E c \in Range(props) : df[k][c] = "None"

\* ------------------------------------------------------------------ C18
\* C18: search_to_dataframe on an empty list of search results fails with
\* AssertionError and returns nothing; whenever it returns, the DataFrame
\* has at least one row.
C18_EmptySearchFails ==
    /\ (granules = <<>> /\ qpc # "call") => (qpc = "AssertionError" /\ df = <<>>)
    /\ qpc = "done" => Len(df) >= 1

\* the call on an empty search ended in AssertionError
C18_Witness ==
    /\ granules = <<>>
    /\ qpc = "AssertionError"

\* ========================================================= urls_to_stack
MaxRows == 3

MaxTime == 2

\* the value of a pixel that xarray fills in where a slice has no data
NaN == -1

\* the GeoTIFF files behind the hrefs: bounds (xmin, ymax and the size in
\* pixels of resolution 1) and a label that tells their pixels apart
RasterFiles ==
    { [label |-> 1, xmin |-> 0, ymax |-> 2, width |-> 2, height |-> 2],
      [label |-> 2, xmin |-> 0, ymax |-> 2, width |-> 2, height |-> 2],
      [label |-> 3, xmin |-> 1, ymax |-> 2, width |-> 2, height |-> 2],
      [label |-> 4, xmin |-> 0, ymax |-> 2, width |-> 3, height |-> 2] }

\* ds.read(): one band of height x width pixels
ReadPixels(f) ==
    [r \in 1..f.height |-> [c \in 1..f.width |-> 100 * f.label + 10 * r + c]]

\* np.arange(xmin, xmax, x_res) with x_res = 1
LonOf(f) == [c \in 1..f.width |-> f.xmin + c - 1]

\* np.arange(ymax, ymin, -y_res) with y_res = 1
LatOf(f) == [r \in 1..f.height |-> f.ymax - r + 1]

\* xr.DataArray(data=img, dims=["band","lat","lon"], coords=dict(lon, lat, time=i, band))
DataArrayOf(i, f) ==
    [time |-> i, lat |-> LatOf(f), lon |-> LonOf(f), data |-> ReadPixels(f)]

\* the index of a dimension after xarray aligns the arrays with join="outer":
\* the common index when all are equal, else the sorted union
OuterJoin(indexes) ==
    IF \A k \in DOMAIN indexes : indexes[k] = indexes[1]
    THEN indexes[1]
    ELSE SetToSeq(UNION {Range(indexes[k]) : k \in DOMAIN indexes})

PositionIn(index, v) == CHOOSE n \in DOMAIN index : index[n] = v

\* one array reindexed to the joined coordinates, NaN where it has no data
Reindex(da, lat, lon) ==
    [r \in DOMAIN lat |-> [c \in DOMAIN lon |->
        IF lat[r] \in Range(da.lat) /\ lon[c] \in Range(da.lon)
        THEN da.data[PositionIn(da.lat, lat[r])][PositionIn(da.lon, lon[c])]
        ELSE NaN]]

\* xr.concat(stack, dim='time')
XrConcat(das) ==
    LET lat == OuterJoin([k \in DOMAIN das |-> das[k].lat])
        lon == OuterJoin([k \in DOMAIN das |-> das[k].lon])
    IN [time |-> [k \in DOMAIN das |-> das[k].time],
        lat  |-> lat,
        lon  |-> lon,
        data |-> [k \in DOMAIN das |-> Reindex(das[k], lat, lon)]]

\* .squeeze(): the dimensions of length 1 are dropped from dims
Squeeze(a) ==
    [time |-> a.time, lat |-> a.lat, lon |-> a.lon, data |-> a.data,
     dims |-> SelectSeq(<<"time", "lat", "lon">>, LAMBDA d : Len(a[d]) # 1)]

RowSet == [i : 1..MaxTime, href : RasterFiles]

\* df = df.set_index('datetime').sort_index(): the rows come in time order
SortedIndex(df_rows) ==
    \A j, k \in DOMAIN df_rows : j < k => df_rows[j].i <= df_rows[k].i

\* a with-block that leaves its dataset as it is
LeaveOpen(dss, n) == dss

\* leaving the block of `with rasterio.open(row.href) as ds` closes ds, on
\* normal exit and when an exception passes through
ExitWith(dss, n) == [dss EXCEPT ![n] = "closed"]

\* an exception handler that returns what was stacked so far
PartialResult(das) == IF das = <<>> THEN <<>> ELSE Squeeze(XrConcat(das))

\* an exception leaves urls_to_stack: the call has no value
NoResult(das) == <<>>

UrlsInit ==
    /\ granule_dataframe \in {g \in SeqsUpTo(RowSet, MaxRows) : SortedIndex(g)}
    /\ stack = <<>>
    /\ row_i = 1
    /\ stacked = <<>>
    /\ datasets = <<>>
    /\ upc = "loop"
    /\ OnlyUrls

\* with rasterio.open(row.href) as ds: the dataset is opened
UrlsOpen ==
    /\ upc = "loop"
    /\ row_i <= Len(granule_dataframe)
    /\ datasets' = Append(datasets, "open")
    /\ upc' = "with"
    /\ UNCHANGED <<granule_dataframe, stack, row_i, stacked>>
    /\ UNCHANGED notUrls

\* rasterio.open(row.href) raises (a file that is missing or unreadable):
\* no dataset was opened, the exception leaves urls_to_stack
UrlsOpenFail ==
    /\ upc = "loop"
    /\ row_i <= Len(granule_dataframe)
    /\ stacked' = NoResult(stack)
    /\ upc' = "RasterioIOError"
    /\ UNCHANGED <<granule_dataframe, stack, row_i, datasets>>
    /\ UNCHANGED notUrls

\* the body of the with-block: read, build da, stack.append(da)
UrlsAppend ==
    /\ upc = "with"
    /\ LET row == granule_dataframe[row_i]
       IN stack' = Append(stack, DataArrayOf(row.i, row.href))
    /\ upc' = "exit"
    /\ UNCHANGED <<granule_dataframe, row_i, stacked, datasets>>
    /\ UNCHANGED notUrls

\* ds.read() raises inside the with-block: the block is left, which closes
\* the dataset, and the exception leaves urls_to_stack
UrlsReadFail ==
    /\ upc = "with"
    /\ datasets' = ExitWith(datasets, Len(datasets))
    /\ stacked' = NoResult(stack)
    /\ upc' = "RasterioIOError"
    /\ UNCHANGED <<granule_dataframe, stack, row_i>>
    /\ UNCHANGED notUrls

\* the end of the with-block closes the dataset; next row
UrlsExit ==
    /\ upc = "exit"
    /\ datasets' = ExitWith(datasets, Len(datasets))
    /\ row_i' = row_i + 1
    /\ upc' = "loop"
    /\ UNCHANGED <<granule_dataframe, stack, stacked>>
    /\ UNCHANGED notUrls

\* return xr.concat(stack, dim='time').squeeze(); xr.concat of an empty
\* list raises ValueError
UrlsReturn ==
    /\ upc = "loop"
    /\ row_i > Len(granule_dataframe)
    /\ IF stack = <<>>
       THEN /\ upc' = "ValueError"
            /\ UNCHANGED stacked
       ELSE /\ stacked' = Squeeze(XrConcat(stack))
            /\ upc' = "done"
    /\ UNCHANGED <<granule_dataframe, stack, row_i, datasets>>
    /\ UNCHANGED notUrls

UrlsNext ==
    \/ UrlsOpen \/ UrlsOpenFail \/ UrlsAppend \/ UrlsReadFail
    \/ UrlsExit \/ UrlsReturn

SpecUrls == UrlsInit /\ [][UrlsNext]_vars

\* ------------------------------------------------- vocabulary of the claims
ShapeOf(f) == <<f.height, f.width>>

ShapeOfSlice(sl) == <<Len(sl), Len(sl[1])>>

SameShapes ==
    \A j, k \in DOMAIN granule_dataframe :
        ShapeOf(granule_dataframe[j].href) = ShapeOf(granule_dataframe[k].href)

\* ------------------------------------------------------------------ C12
\* C12: the stack has exactly one slice per input entry, in the order of the
\* entries: slice k carries the tag of the k-th entry and holds the pixels
\* read for the k-th entry, in their own shape.
C12_SlicePerEntryInOrder ==
    upc = "done" =>
        /\ Len(stacked.time) = Len(granule_dataframe)
        /\ Len(stacked.data) = Len(granule_dataframe)
        /\ \A k \in DOMAIN granule_dataframe :
              /\ stacked.time[k] = granule_dataframe[k].i
              /\ stacked.data[k] = ReadPixels(granule_dataframe[k].href)

\* ------------------------------------------------------------------ C14
\* C14: stacking inputs that all have the same pixel-grid shape never ends
\* in a shape error, and stacking inputs of which two differ in shape never
\* returns a stack: no slice is reshaped or padded.
C14_ShapeMismatchFails ==
    /\ (SameShapes /\ granule_dataframe # <<>>) => upc # "ValueError"
    /\ upc = "done" =>
          /\ SameShapes
          /\ \A k \in DOMAIN stacked.data :
                /\ ShapeOfSlice(stacked.data[k]) = ShapeOf(granule_dataframe[k].href)
                /\ \A r \in DOMAIN stacked.data[k] :
                      NaN \notin Range(stacked.data[k][r])

\* ------------------------------------------------------------------ C13
\* C13: entries that carry the same tag are collapsed into one slice before
\* stacking, so the stack never holds two slices with the same tag.
C13_OneSlicePerTag ==
    upc = "done" =>
        \A j, k \in DOMAIN stacked.time :
            stacked.time[j] = stacked.time[k] => j = k

\* ============================== day-by-day stacking of the wildfire study
MaxEntries == 3

MaxDay == 3

\* the GeoTIFF files behind the hrefs: crs and shape (band, y, x) of the data
TileFiles ==
    { [label |-> "A", crs |-> "EPSG:32635", shape |-> <<1, 2, 2>>],
      [label |-> "B", crs |-> "EPSG:32634", shape |-> <<1, 2, 2>>],
      [label |-> "C", crs |-> "EPSG:32635", shape |-> <<1, 1, 4>>],
      [label |-> "D", crs |-> "EPSG:32635", shape |-> <<1, 1, 2>>] }

\* the shapes of the mosaics merge(hrefs) may return
MosaicShapes == {f.shape : f \in TileFiles}

EntrySet == [day : 1..MaxDay, href : TileFiles]

Size(sh) == sh[1] * sh[2] * sh[3]

MinOf(S) == CHOOSE m \in S : \A n \in S : m <= n

MaxOf(S) == CHOOSE m \in S : \A n \in S : n <= m

\* the hrefs of the rows of one day, in row order
HrefsOn(df_rows, d) ==
    LET on == SelectSeq(df_rows, LAMBDA row : row.day = d)
    IN [k \in DOMAIN on |-> on[k].href]

\* veg_dist_status.resample('1d').href.apply(list): one bin per day from the
\* first day with a row to the last, the empty ones included
Resample(df_rows) ==
    IF df_rows = <<>> THEN <<>>
    ELSE LET days  == {df_rows[k].day : k \in DOMAIN df_rows}
             first == MinOf(days)
         IN [n \in 1..(MaxOf(days) - first + 1) |->
                [day |-> first + n - 1, hrefs |-> HrefsOn(df_rows, first + n - 1)]]

\* a filter that keeps every bin
KeepAll(series) == series

\* by_day.loc[by_day.map(bool)]: the bins whose list is not empty
NonEmptyBins(series) == SelectSeq(series, LAMBDA bin : bin.hrefs # <<>>)

\* ds.read()
ReadRaster(f) == [shape |-> f.shape, from |-> <<f.label>>]

\* np.reshape(raster, newshape=shape) on a raster with as many elements
Reshape(raster, sh) == [raster EXCEPT !.shape = sh]

\* df = df.set_index('datetime').sort_index(): the rows come in time order
SortedDays(df_rows) ==
    \A j, k \in DOMAIN df_rows : j < k => df_rows[j].day <= df_rows[k].day

\* data.coords of an opened file: x, renamed longitude, has one entry per
\* column, from west to east
XCoords(f) == [c \in 1..f.shape[3] |-> 100 + c]

\* data.coords of an opened file: y, renamed latitude, has one entry per row,
\* from north to south
YCoords(f) == [r \in 1..f.shape[2] |-> 200 - r]

DailyInit ==
    /\ veg_dist_status \in {v \in SeqsUpTo(EntrySet, MaxEntries) : SortedDays(v)}
    /\ by_day = <<>>
    /\ crs = ""
    /\ shape = <<>>
    /\ template = <<>>
    /\ rasters = <<>>
    /\ day_i = 0
    /\ cube = <<>>
    /\ dpc = "resample"
    /\ OnlyDaily

\* by_day = veg_dist_status.resample('1d').href.apply(list)
DailyResample ==
    /\ dpc = "resample"
    /\ by_day' = Resample(veg_dist_status)
    /\ dpc' = "filter"
    /\ UNCHANGED <<veg_dist_status, crs, shape, template, rasters, day_i, cube>>
    /\ UNCHANGED notDaily

\* by_day = by_day.loc[by_day.map(bool)]
DailyFilter ==
    /\ dpc = "filter"
    /\ by_day' = NonEmptyBins(by_day)
    /\ dpc' = "open"
    /\ UNCHANGED <<veg_dist_status, crs, shape, template, rasters, day_i, cube>>
    /\ UNCHANGED notDaily

\* href = by_day[0][0]; data = rio.open_rasterio(href).rename(...);
\* crs = data.rio.crs; shape = data.shape.  On an empty series by_day[0]
\* raises a LookupError, and the open of the file may raise
DailyOpen ==
    /\ dpc = "open"
    /\ IF by_day = <<>> \/ by_day[1].hrefs = <<>>
       THEN /\ dpc' = "LookupError"
            /\ UNCHANGED <<crs, shape>>
       ELSE \/ /\ dpc' = "RasterioIOError"
               /\ UNCHANGED <<crs, shape>>
            \/ LET opened == by_day[1].hrefs[1]
               IN /\ crs' = opened.crs
                  /\ shape' = opened.shape
                  /\ dpc' = "template"
    /\ UNCHANGED <<veg_dist_status, by_day, template, rasters, day_i, cube>>
    /\ UNCHANGED notDaily

\* the next cell: template = dict(); template['coords'] = data.coords.copy()
\* without band and with time; template['dims'] = ['time', 'longitude',
\* 'latitude']; data is the file opened in the cell before
DailyTemplate ==
    /\ dpc = "template"
    /\ LET opened == by_day[1].hrefs[1]
       IN template' = [time      |-> [k \in DOMAIN by_day |-> by_day[k].day],
                       longitude |-> XCoords(opened),
                       latitude  |-> YCoords(opened),
                       dims      |-> <<"time", "longitude", "latitude">>]
    /\ dpc' = "rasters"
    /\ UNCHANGED <<veg_dist_status, by_day, crs, shape, rasters, day_i, cube>>
    /\ UNCHANGED notDaily

\* the cell of the loop begins: rasters = []; for date, hrefs in by_day.items()
DailyLoopStart ==
    /\ dpc = "rasters"
    /\ rasters' = <<>>
    /\ day_i' = 1
    /\ dpc' = "loop"
    /\ UNCHANGED <<veg_dist_status, by_day, crs, shape, template, cube>>
    /\ UNCHANGED notDaily

\* rasters.append(np.reshape(raster, newshape=shape)); np.reshape raises
\* ValueError when the number of elements differs
AppendReshaped(raster) ==
    IF Size(raster.shape) = Size(shape)
    THEN /\ rasters' = Append(rasters, Reshape(raster, shape))
         /\ day_i' = day_i + 1
         /\ UNCHANGED dpc
    ELSE /\ dpc' = "ValueError"
         /\ UNCHANGED <<rasters, day_i>>

\* n_files > 1: raster, _ = merge(hrefs).  merge is library code: it raises,
\* or returns a mosaic of some shape
DailyMerge ==
    /\ dpc = "loop"
    /\ day_i <= Len(by_day)
    /\ Len(by_day[day_i].hrefs) > 1
    /\ \/ /\ dpc' = "RasterioError"
          /\ UNCHANGED <<rasters, day_i>>
       \/ \E sh \in MosaicShapes :
             AppendReshaped([shape |-> sh,
                             from  |-> [k \in DOMAIN by_day[day_i].hrefs |->
                                           by_day[day_i].hrefs[k].label]])
    /\ UNCHANGED <<veg_dist_status, by_day, crs, shape, template, cube>>
    /\ UNCHANGED notDaily

\* else: with rasterio.open(hrefs[0]) as ds: raster = ds.read(); hrefs[0]
\* of an empty list raises IndexError, and the open or the read of a file
\* may raise, which ends the cell
DailyRead ==
    /\ dpc = "loop"
    /\ day_i <= Len(by_day)
    /\ Len(by_day[day_i].hrefs) <= 1
    /\ IF by_day[day_i].hrefs = <<>>
       THEN /\ dpc' = "IndexError"
            /\ UNCHANGED <<rasters, day_i>>
       ELSE \/ AppendReshaped(ReadRaster(by_day[day_i].hrefs[1]))
            \/ /\ dpc' = "RasterioIOError"
               /\ UNCHANGED <<rasters, day_i>>
    /\ UNCHANGED <<veg_dist_status, by_day, crs, shape, template, cube>>
    /\ UNCHANGED notDaily

\* stack = xr.DataArray(data=np.concatenate(rasters, axis=0), **template);
\* stack.rio.write_crs(crs, inplace=True).  The constructor raises ValueError
\* when the length of an axis differs from the length of the coordinate of
\* the dimension named for it
DailyBuild ==
    /\ dpc = "loop"
    /\ day_i > Len(by_day)
    /\ LET sizes == <<Len(rasters) * shape[1], shape[2], shape[3]>>
       IN IF /\ sizes[1] = Len(template.time)
             /\ sizes[2] = Len(template[template.dims[2]])
             /\ sizes[3] = Len(template[template.dims[3]])
          THEN /\ cube' = [time |-> template.time, dims |-> template.dims,
                           longitude |-> template.longitude,
                           latitude |-> template.latitude,
                           sizes |-> sizes, data |-> rasters, crs |-> crs]
               /\ dpc' = "done"
          ELSE /\ dpc' = "ValueError"
               /\ UNCHANGED cube
    /\ UNCHANGED <<veg_dist_status, by_day, crs, shape, template, rasters, day_i>>
    /\ UNCHANGED notDaily

DailyNext ==
    \/ DailyResample \/ DailyFilter \/ DailyOpen \/ DailyTemplate
    \/ DailyLoopStart \/ DailyMerge \/ DailyRead \/ DailyBuild

SpecDaily == DailyInit /\ [][DailyNext]_vars

\* ------------------------------------------------------------------ C16
\* C16: an empty list of URLs is never merged or read: every list that
\* reaches the merge-or-read step of the day-by-day loop is non-empty, merge
\* is called on lists of two or more only, and no run ends in the
\* IndexError of hrefs[0] on an empty list.
C16_NoEmptyListInLoop ==
    /\ dpc # "IndexError"
    /\ dpc \in {"open", "template", "rasters", "loop", "done"} =>
          \A k \in DOMAIN by_day : by_day[k].hrefs # <<>>

\* days without any file lay between days with files, and the stack was built
C16_Witness ==
    /\ dpc = "done"
    /\ Len(Resample(veg_dist_status)) > Len(by_day)

\* ------------------------------------------------------------------ C15
\* C15: the crs attached to the stack is the crs of every file that went
\* into it: files with differing crs never end up in one stack (merge fails
\* on them), and the stack never carries the crs of only one of its files.
C15_CrsOfEveryFrame ==
    dpc = "done" =>
        \A k \in DOMAIN by_day : \A n \in DOMAIN by_day[k].hrefs :
            by_day[k].hrefs[n].crs = cube.crs

\* ------------------------------------------------------------------ C21
\* C21: when no category codes are supplied, the keys of the returned map
\* are exactly the distinct pixel values of the input array, minus null_val
\* when replace_null is true.
C21_DerivedCodes ==
    (PastAssert /\ values = <<>>) =>
        Keys(relabel) = (IF replace_null THEN Range(data) \ {null_val}
                                         ELSE Range(data))

\* returned without a list of codes, for an array that holds null_val and
\* another value, with replace_null
C21_Witness ==
    /\ Returned
    /\ values = <<>>
    /\ replace_null
    /\ null_val \in Range(data)
    /\ Keys(relabel) # {}

\* ------------------------------------------------------------------ C22
\* the value of pixel i once null_val has been replaced
Collapsed(i) ==
    IF replace_null /\ data[i] = null_val THEN transparent_val ELSE data[i]

\* C22 (as claimed): whenever the call returns, every pixel of the returned
\* array has a value in the image of the returned map, and that image is
\* [start, start + number of mapped codes).
C22_EveryPixelInImage ==
    Returned =>
        /\ Range(new_data) \subseteq Image(relabel)
        /\ Image(relabel) = {start + k : k \in 0..(Cardinality(Keys(relabel)) - 1)}

\* C22 (amended): whenever the call returns, every pixel whose value (after
\* the replacement of null_val) is a key of the returned map has a returned
\* value in the image of the map; every other pixel is returned with that
\* value unchanged, inside the image or not.
C22_MappedPixelsInImage ==
    Returned =>
        \A i \in DOMAIN data :
            IF Collapsed(i) \in Keys(relabel)
            THEN new_data[i] \in Image(relabel)
            ELSE new_data[i] = Collapsed(i)

\* returned with a pixel that is no key and lies outside the image, next to
\* a pixel that was relabelled
C22_Witness ==
    /\ Returned
    /\ \E i \in DOMAIN data :
          Collapsed(i) \notin Keys(relabel) /\ new_data[i] \notin Image(relabel)
    /\ \E i \in DOMAIN data :
          Collapsed(i) \in Keys(relabel) /\ new_data[i] # data[i]

\* ------------------------------------------------------------------ C23
\* the axis of the stack that a dimension name labels
AxisOf(name) == CHOOSE n \in DOMAIN cube.dims : cube.dims[n] = name

\* the first file of the first day, from which shape and coords were taken
FirstFile == by_day[1].hrefs[1]

\* C23: every pixel of the stack keeps the spatial coordinates it had in its
\* source raster: the element at row r and column c of a slice is labelled
\* with the latitude of row r and the longitude of column c.
C23_PixelsKeepCoordinates ==
    dpc = "done" =>
        \A r \in 1..cube.sizes[2] : \A c \in 1..cube.sizes[3] :
            LET element == <<1, r, c>>
            IN /\ cube.latitude[element[AxisOf("latitude")]] = YCoords(FirstFile)[r]
               /\ cube.longitude[element[AxisOf("longitude")]] = XCoords(FirstFile)[c]

\* =================================== coordinates from bounds and resolution
MaxSide == 3

\* the pixel sizes of the files
ResSet == {1, 2}

\* a whole number n as a float
Whole(n) == <<0, n>>

\* ceil(span/step) for a span below 2^HiExp and a whole number step
CeilDiv(span, step) ==
    IF Leq(span, <<0, 0>>) THEN 0 ELSE (span[2] + step - 1) \div step

\* np.arange(first, stop, step) on floats, step = sgn * res: the length is
\* ceil((stop - first)/step); the entries are first + i*delta with
\* delta = (first + step) - first
NpArange(first, stop, sgn, res) ==
    LET step  == Times(sgn, Whole(res))
        span  == Times(sgn, Fl(Plus(stop, Neg(first))))
        n     == CeilDiv(span, res)
        next  == Fl(Plus(first, step))
        delta == Fl(Plus(next, Neg(first)))
    IN [i \in 1..n |->
          IF i = 1 THEN first
          ELSE Fl(Plus(first, <<(i - 1) * delta[1], (i - 1) * delta[2]>>))]

\* the affine transform applied to the corner opposite to the origin:
\* (c, f + e*height, c + a*width, f) with e = -a
ArrayBounds(d) ==
    <<d.c,
      Fl(Plus(d.f, Neg(Whole(d.a * d.height)))),
      Fl(Plus(d.c, Whole(d.a * d.width))),
      d.f>>

CoordInit ==
    /\ ds \in [c : CoordSet, f : CoordSet, a : ResSet,
                width : 1..MaxSide, height : 1..MaxSide]
    /\ bounds = <<>>
    /\ longitude = <<>>
    /\ latitude = <<>>
    /\ cpc = "open"
    /\ OnlyCoord

\* xmin, ymin, xmax, ymax = ds.bounds
CoordBounds ==
    /\ cpc = "open"
    /\ bounds' = ArrayBounds(ds)
    /\ cpc' = "bounds"
    /\ UNCHANGED <<ds, longitude, latitude>>
    /\ UNCHANGED notCoord

\* lon = np.arange(xmin, xmax, x_res); lat = np.arange(ymax, ymin, -y_res)
CoordArange ==
    /\ cpc = "bounds"
    /\ longitude' = NpArange(bounds[1], bounds[3], 1, ds.a)
    /\ latitude' = NpArange(bounds[4], bounds[2], -1, ds.a)
    /\ cpc' = "coords"
    /\ UNCHANGED <<ds, bounds>>
    /\ UNCHANGED notCoord

\* xr.DataArray(data=img, dims=["band", "lat", "lon"], coords=...): raises
\* ValueError when a coordinate has not the length of its axis
CoordDataArray ==
    /\ cpc = "coords"
    /\ cpc' = (IF Len(longitude) = ds.width /\ Len(latitude) = ds.height
               THEN "done" ELSE "ValueError")
    /\ UNCHANGED <<ds, bounds, longitude, latitude>>
    /\ UNCHANGED notCoord

CoordNext == CoordBounds \/ CoordArange \/ CoordDataArray

SpecCoord == CoordInit /\ [][CoordNext]_vars

\* ------------------------------------------------------------------ C24
\* C24: the coordinate vectors rebuilt from bounds and resolution have one
\* entry per pixel column and per pixel row, the x coordinates strictly
\* increasing and the y coordinates strictly decreasing, the first entries
\* being x_min and y_max.
C24_OneCoordinatePerPixel ==
    cpc \in {"coords", "done", "ValueError"} =>
        /\ Len(longitude) = ds.width
        /\ Len(latitude) = ds.height
        /\ \A i \in 1..(Len(longitude) - 1) : Less(longitude[i], longitude[i + 1])
        /\ \A i \in 1..(Len(latitude) - 1) : Less(latitude[i + 1], latitude[i])
        /\ longitude[1] = bounds[1]
        /\ latitude[1] = bounds[4]

\* ------------------------------------------------- vocabulary of the claims
OpenDatasets == {n \in DOMAIN datasets : datasets[n] = "open"}

Raised == upc \in {"ValueError", "RasterioIOError"}

\* the array built from row n is whole: it has every pixel of its file
WholeSlice(da, n) ==
    LET f == granule_dataframe[n].href
    IN /\ da.time = granule_dataframe[n].i
       /\ Len(da.data) = f.height
       /\ \A r \in 1..f.height :
             /\ Len(da.data[r]) = f.width
             /\ \A c \in 1..f.width : da.data[r][c] = ReadPixels(f)[r][c]

\* ------------------------------------------------------------------ C25
\* C25: when the open or the read of a file fails while the stack is being
\* built, the failure leaves urls_to_stack as an exception and no stack is
\* returned; every array stacked up to then is whole, none is partly filled.
C25_FailureSurfaced ==
    /\ upc = "RasterioIOError" => stacked = <<>>
    /\ \A n \in DOMAIN stack : WholeSlice(stack[n], n)
    /\ Len(stack) <= Len(datasets)

\* the read of the second file failed after the first array was stacked
C25_Witness ==
    /\ upc = "RasterioIOError"
    /\ Len(stack) = 1
    /\ Len(datasets) = 2

\* ------------------------------------------------------------------ C26
\* C26: a failed read for one row does not abort the construction: the stack
\* is still built from the other rows.
C26_FailureOmitsOneSlice == upc # "RasterioIOError"

\* ------------------------------------------------------------------ C28
\* C28: a dataset is open while it is read and closed when its with-block is
\* left, on normal exit and on error alike: at most one dataset is open at
\* any time and none is open when urls_to_stack returns or raises.
C28_DatasetsClosed ==
    /\ Cardinality(OpenDatasets) <= 1
    /\ upc = "with" => Len(datasets) \in OpenDatasets
    /\ upc \in {"loop", "done"} \/ Raised => OpenDatasets = {}

\* the read of a file failed inside the with-block of the second dataset
C28_Witness ==
    /\ upc = "RasterioIOError"
    /\ Len(datasets) = 2
    /\ Len(stack) = 1
    /\ datasets[2] = "closed"

\* ======================= the rows with little cloud and the B01_WTR band
MaxFrame == 2

\* cloud cover is held in units of 1/1024 percent
CloudUnit == 1024

\* g.properties.get(k, None) of a granule without the property
Missing == -2

\* eo:cloud_cover as the search gives it: 9, 10 - 3/1024, 10, 10 + 3/1024,
\* 11 percent, or no value
CloudSet == {Missing, 9 * CloudUnit, 10 * CloudUnit - 3, 10 * CloudUnit,
             10 * CloudUnit + 3, 11 * CloudUnit}

\* the asset names "0_B01_WTR", "0_B02_BWTR", "0_B01_WT" and "B01_WTR_x"
FilterAssets ==
    { <<"0", "_", "B", "0", "1", "_", "W", "T", "R">>,
      <<"0", "_", "B", "0", "2", "_", "B", "W", "T", "R">>,
      <<"0", "_", "B", "0", "1", "_", "W", "T">>,
      <<"B", "0", "1", "_", "W", "T", "R", "_", "x">> }

B01_WTR == <<"B", "0", "1", "_", "W", "T", "R">>

\* the spacing of binary16 at u (in units of 1/1024): 11 significant bits
RECURSIVE Quantum16(_)
Quantum16(u) == IF u < 2 * CloudUnit THEN 1 ELSE 2 * Quantum16(u \div 2)

\* astype(np.float16) of one value: the nearest binary16, ties to even; None
\* becomes NaN
Float16(u) ==
    IF u = Missing THEN NaN
    ELSE LET q    == Quantum16(u)
             down == (u \div q) * q
             rest == u - down
         IN IF 2 * rest < q THEN down
            ELSE IF 2 * rest > q THEN down + q
            ELSE IF (down \div q) % 2 = 0 THEN down ELSE down + q

\* the missing value of a nullable column
NA == -3

\* df.convert_dtypes() of a float column: a nullable column with the same
\* numbers, NaN becomes <NA>
ConvertDtypes(x) == IF x = NaN THEN NA ELSE x

\* x < y, element of a Series: False for NaN, <NA> for <NA>
LessThan(x, y) ==
    IF x = NA THEN "NA" ELSE IF x # NaN /\ x < y THEN "True" ELSE "False"

\* x <= y, element of a Series
LessEqual(x, y) ==
    IF x = NA THEN "NA" ELSE IF x # NaN /\ x <= y THEN "True" ELSE "False"

\* x & y of two boolean Series elements, either of which may be <NA>
And3(x, y) ==
    IF x = "False" \/ y = "False" THEN "False"
    ELSE IF x = "NA" \/ y = "NA" THEN "NA"
    ELSE "True"

\* one string is found in the other (a pattern without regex metacharacters)
Contains(str, pat) ==
    \E k \in 1..(Len(str) - Len(pat) + 1) : SubSeq(str, k, k + Len(pat) - 1) = pat

\* Series.str.contains(pat), element of a string column
StrContains(str, pat) == IF Contains(str, pat) THEN "True" ELSE "False"

\* df.set_index('datetime').sort_index(): the rows in the order of their
\* datetime; the order of rows with the same datetime is what the sort
\* (quicksort) makes of it
SortIndex(frm) ==
    {sorted \in [DOMAIN frm -> Range(frm)] :
        /\ \E perm \in [DOMAIN frm -> DOMAIN frm] :
              /\ \A i, j \in DOMAIN frm : perm[i] = perm[j] => i = j
              /\ \A i \in DOMAIN frm : sorted[i] = frm[perm[i]]
        /\ \A i, j \in DOMAIN frm :
              i < j => sorted[i].datetime <= sorted[j].datetime}

\* the rows where the mask is True, in order; <NA> in the mask counts as False
RECURSIVE Loc(_, _, _)
Loc(frm, mask, n) ==
    IF n = 0 THEN <<>>
    ELSE IF mask[n] = "True" THEN Append(Loc(frm, mask, n - 1), frm[n])
    ELSE Loc(frm, mask, n - 1)

\* .drop(['asset', 'cloud_cover'], axis=1)
DropColumns(row) == [datetime |-> row.datetime, href |-> row.href]

\* the rows as the search gave them: the href tells the rows apart
FilterRows ==
    {[n \in DOMAIN r |-> [datetime    |-> r[n].datetime,
                          cloud_cover |-> r[n].cloud_cover,
                          asset       |-> r[n].asset,
                          href        |-> n]] :
        r \in SeqsUpTo([datetime : 1..MaxTime, cloud_cover : CloudSet,
                        asset : FilterAssets], MaxFrame)}

FilterInit ==
    /\ cell \in {"LakeMead", "Bhakra"}
    /\ found \in FilterRows
    /\ frame = found
    /\ c1 = <<>>
    /\ c2 = <<>>
    /\ b01_wtr = <<>>
    /\ fpc = "astype"
    /\ OnlyFilter

\* df['cloud_cover'] = df['cloud_cover'].astype(np.float16)
FilterAstype ==
    /\ fpc = "astype"
    /\ frame' = [n \in DOMAIN frame |->
                   [frame[n] EXCEPT !.cloud_cover = Float16(frame[n].cloud_cover)]]
    /\ fpc' = (IF cell = "Bhakra" THEN "convert" ELSE "sort")
    /\ UNCHANGED <<cell, found, c1, c2, b01_wtr>>
    /\ UNCHANGED notFilter

\* Bhakra Nangal only: df = df.convert_dtypes()
FilterConvert ==
    /\ fpc = "convert"
    /\ frame' = [n \in DOMAIN frame |->
                   [frame[n] EXCEPT !.cloud_cover = ConvertDtypes(frame[n].cloud_cover)]]
    /\ fpc' = "sort"
    /\ UNCHANGED <<cell, found, c1, c2, b01_wtr>>
    /\ UNCHANGED notFilter

\* df = df.set_index('datetime').sort_index()
FilterSort ==
    /\ fpc = "sort"
    /\ frame' \in SortIndex(frame)
    /\ fpc' = "c1"
    /\ UNCHANGED <<cell, found, c1, c2, b01_wtr>>
    /\ UNCHANGED notFilter

\* Lake Mead: c1 = (df.cloud_cover <= 10); Bhakra Nangal: c1 = df.cloud_cover<10
FilterC1 ==
    /\ fpc = "c1"
    /\ c1' = [n \in DOMAIN frame |->
                IF cell = "LakeMead"
                THEN LessEqual(frame[n].cloud_cover, 10 * CloudUnit)
                ELSE LessThan(frame[n].cloud_cover, 10 * CloudUnit)]
    /\ fpc' = "c2"
    /\ UNCHANGED <<cell, found, frame, c2, b01_wtr>>
    /\ UNCHANGED notFilter

\* c2 = df.asset.str.contains('B01_WTR')
FilterC2 ==
    /\ fpc = "c2"
    /\ c2' = [n \in DOMAIN frame |-> StrContains(frame[n].asset, B01_WTR)]
    /\ fpc' = "loc"
    /\ UNCHANGED <<cell, found, frame, c1, b01_wtr>>
    /\ UNCHANGED notFilter

\* Lake Mead: b01_wtr = df.loc[c1 & c2].drop(['asset', 'cloud_cover'], axis=1);
\* Bhakra Nangal: df = df.loc[c1 & c2]
FilterLoc ==
    /\ fpc = "loc"
    /\ LET kept == Loc(frame, [n \in DOMAIN frame |-> And3(c1[n], c2[n])], Len(frame))
       IN b01_wtr' = IF cell = "LakeMead"
                     THEN [k \in DOMAIN kept |-> DropColumns(kept[k])]
                     ELSE kept
    /\ fpc' = "done"
    /\ UNCHANGED <<cell, found, frame, c1, c2>>
    /\ UNCHANGED notFilter

FilterNext ==
    \/ FilterAstype \/ FilterConvert \/ FilterSort
    \/ FilterC1 \/ FilterC2 \/ FilterLoc

SpecFilter == FilterInit /\ [][FilterNext]_vars

\* ------------------------------------------------------------------ C30
\* C30: the filter keeps exactly the rows whose cloud cover is strictly
\* below 10 percent and whose asset name contains B01_WTR; a row with cloud
\* cover equal to 10, or without a cloud cover, is not kept.
C30_BelowTenAndB01 ==
    fpc = "done" =>
        \A n \in DOMAIN found :
            (\E k \in DOMAIN b01_wtr : b01_wtr[k].href = n)
                <=> /\ found[n].cloud_cover # Missing
                    /\ found[n].cloud_cover < 10 * CloudUnit
                    /\ Contains(found[n].asset, B01_WTR)

\* ========================================= the area damaged, day by day
MaxSlices == 2

MaxHeight == 5

MaxWidth == 9

pixel_val == 6

\* a binary64 number is [m, e] and stands for m * 2^e; m is a natural number
\* of 53 bits held in limbs of 15 bits, the least significant first
LimbBase == 32768

\* conversion_factor = (30/1_000)**2 / pixel_val, which evaluates to the
\* binary64 number 0x1.3a92a30553261p-13 = 5534023222112865 * 2^-65
conversion_factor == [m |-> <<12897, 24746, 9384, 157, 0>>, e |-> -65]

\* the binary64 number 0.0009 = 0x1.d7dbf487fcb92p-11 = 8301034833169298 * 2^-63
KmSquaredPerPixel == [m |-> <<19346, 4351, 30461, 235, 0>>, e |-> -63]

FloatZero == [m |-> <<0, 0, 0, 0, 0>>, e |-> 0]

RECURSIVE MulFrom(_, _, _, _)
MulFrom(a, k, i, carry) ==
    IF i > Len(a) THEN <<>>
    ELSE LET p == a[i] * k + carry
         IN <<p % LimbBase>> \o MulFrom(a, k, i + 1, p \div LimbBase)

\* the exact product of a limb number and a small natural number
MulSmall(a, k) == MulFrom(a, k, 1, 0)

RECURSIVE BitLenInt(_)
BitLenInt(x) == IF x = 0 THEN 0 ELSE 1 + BitLenInt(x \div 2)

RECURSIVE TopLimb(_, _)
TopLimb(a, i) == IF i = 0 THEN 0 ELSE IF a[i] # 0 THEN i ELSE TopLimb(a, i - 1)

BitLen(a) ==
    LET top == TopLimb(a, Len(a))
    IN IF top = 0 THEN 0 ELSE 15 * (top - 1) + BitLenInt(a[top])

ShiftRight1(a) ==
    [i \in DOMAIN a |->
        (a[i] \div 2)
        + (IF i < Len(a) /\ a[i + 1] % 2 = 1 THEN LimbBase \div 2 ELSE 0)]

RECURSIVE Inc(_, _)
Inc(a, i) ==
    IF i > Len(a) THEN a
    ELSE IF a[i] + 1 < LimbBase THEN [a EXCEPT ![i] = a[i] + 1]
    ELSE Inc([a EXCEPT ![i] = 0], i + 1)

\* m with more than 53 bits, or 2^53 itself, brought back to 53 bits
Renormal(p, e) ==
    IF BitLen(p) > FloatBits THEN [m |-> ShiftRight1(p), e |-> e + 1]
    ELSE [m |-> p, e |-> e]

\* p * 2^e rounded to 53 bits, to nearest and ties to even; guard is the
\* last bit shifted out and sticky tells whether a 1 was shifted out before
RECURSIVE RoundTo53(_, _, _, _)
RoundTo53(p, e, guard, sticky) ==
    IF BitLen(p) > FloatBits
    THEN RoundTo53(ShiftRight1(p), e + 1, p[1] % 2 = 1, sticky \/ guard)
    ELSE IF guard /\ (sticky \/ p[1] % 2 = 1)
    THEN Renormal(Inc(p, 1), e)
    ELSE [m |-> p, e |-> e]

\* float(k) * x in binary64, for a natural number k below 2^15
FloatTimes(k, x) ==
    IF k = 0 THEN FloatZero ELSE RoundTo53(MulSmall(x.m, k), x.e, FALSE, FALSE)

\* the next binary64 number above a positive x
NextUp(x) == Renormal(Inc(x.m, 1), x.e)

\* an accumulator of the width of the pixels
AccumulateUint8(a, b) == (a + b) % 256

\* np.sum of 8-bit integers accumulates in the 64-bit integer of the
\* platform; the sums of the arrays here stay far below 2^31
Accumulate(a, b) == a + b

RECURSIVE SumSeq(_, _)
SumSeq(xs, n) == IF n = 0 THEN 0 ELSE Accumulate(SumSeq(xs, n - 1), xs[n])

\* sum over axis 2, then over axis 1
SumAxes(img) == SumSeq([r \in DOMAIN img |-> SumSeq(img[r], Len(img[r]))], Len(img))

\* a.where(cond, other=0) with cond = (a == v)
WhereEqual(img, v) ==
    [r \in DOMAIN img |-> [c \in DOMAIN img[r] |->
        IF img[r][c] = v THEN img[r][c] ELSE 0]]

\* the values of the other pixels: no disturbance, provisional, finished,
\* no data
OtherPixels == {0, 5, 8, 255}

\* the number of pixels of value 6 in an array: few, or nearly all
SixCounts ==
    {n \in 0..(MaxHeight * MaxWidth) : n <= 3 \/ n >= MaxHeight * MaxWidth - 3}

\* the array whose first n pixels, row by row, are 6 and whose others are v
SliceOf(n, v) ==
    [r \in 1..MaxHeight |-> [c \in 1..MaxWidth |->
        IF (r - 1) * MaxWidth + c <= n THEN pixel_val ELSE v]]

SliceSet == {SliceOf(n, v) : n \in SixCounts, v \in OtherPixels}

DamageInit ==
    /\ dist_stack \in SeqsUpTo(SliceSet, MaxSlices)
    /\ flagged = <<>>
    /\ sums = <<>>
    /\ damage_area = <<>>
    /\ apc = "where"
    /\ OnlyDamage

\* stack.where(stack==pixel_val, other=0)
DamageWhere ==
    /\ apc = "where"
    /\ flagged' = [t \in DOMAIN dist_stack |-> WhereEqual(dist_stack[t], pixel_val)]
    /\ apc' = "sum"
    /\ UNCHANGED <<dist_stack, sums, damage_area>>
    /\ UNCHANGED notDamage

\* .sum(axis=(1,2))
DamageSum ==
    /\ apc = "sum"
    /\ sums' = [t \in DOMAIN flagged |-> SumAxes(flagged[t])]
    /\ apc' = "scale"
    /\ UNCHANGED <<dist_stack, flagged, damage_area>>
    /\ UNCHANGED notDamage

\* damage_area = damage_area.to_series() * conversion_factor
DamageScale ==
    /\ apc = "scale"
    /\ damage_area' = [t \in DOMAIN sums |-> FloatTimes(sums[t], conversion_factor)]
    /\ apc' = "done"
    /\ UNCHANGED <<dist_stack, flagged, sums>>
    /\ UNCHANGED notDamage

DamageNext == DamageWhere \/ DamageSum \/ DamageScale

SpecDamage == DamageInit /\ [][DamageNext]_vars

\* ------------------------------------------------- vocabulary of the claim
\* the number of pixels of value v in an array
CountOf(img, v) ==
    Cardinality({rc \in (DOMAIN img) \X (1..MaxWidth) : img[rc[1]][rc[2]] = v})

WithinOneUlp(x, y) == x = y \/ NextUp(x) = y \/ NextUp(y) = x

\* ------------------------------------------------------------------ C29
\* C29: for every day of the stack the area is the number of pixels of value
\* 6 times 0.0009; pixels of any other value add nothing and the sum of a
\* day does not wrap around at 8 bits.
C29_AreaIsCountTimes0009 ==
    apc = "done" =>
        \A t \in DOMAIN dist_stack :
            /\ sums[t] = pixel_val * CountOf(dist_stack[t], pixel_val)
            /\ damage_area[t] =
                  FloatTimes(CountOf(dist_stack[t], pixel_val), KmSquaredPerPixel)

\* C29, as the arithmetic gives it: the sum of a day is 6 times the number of
\* pixels of value 6, whatever the other pixels are and also above 255, and
\* the area is the number of pixels of value 6 times 0.0009 up to one unit in
\* the last place of a binary64 number.
C29_AreaWithinRounding ==
    apc = "done" =>
        \A t \in DOMAIN dist_stack :
            /\ sums[t] = pixel_val * CountOf(dist_stack[t], pixel_val)
            /\ WithinOneUlp(damage_area[t],
                  FloatTimes(CountOf(dist_stack[t], pixel_val), KmSquaredPerPixel))

\* a day whose sum is above 255, next to pixels of value 255, and a day whose
\* area is not the same float as the count times 0.0009
C29_Witness ==
    /\ apc = "done"
    /\ \E t \in DOMAIN dist_stack :
          /\ sums[t] > 255
          /\ CountOf(dist_stack[t], 255) > 0
    /\ \E t \in DOMAIN dist_stack :
          damage_area[t] #
              FloatTimes(CountOf(dist_stack[t], pixel_val), KmSquaredPerPixel)
====
